---- MODULE Spec2Model ----
(***************************************************************************)
(* Bootstrap and lifecycle of the matchmaking gRPC plugin server           *)
(* (src/main.go): the main goroutine, the three background goroutines it   *)
(* starts (pprof listener, metrics listener, gRPC accept loop), the        *)
(* interceptor chains, the deferred teardown and the operating-system      *)
(* signals.                                                                *)
(***************************************************************************)
EXTENDS Integers, Sequences, FiniteSets, TLC

VARIABLES
    env,          \* value of PLUGIN_GRPC_SERVER_AUTH_ENABLED in the environment
    args,         \* command line of the process
    gamePort,     \* the flag variable *gamePort
    mainPc,       \* position of the main goroutine
    rootCtx,      \* context created by context.WithCancel (line 108)
    sigCtx,       \* context created by signal.NotifyContext (line 225)
    ctxVar,       \* what the local variable ctx refers to
    defers,       \* deferred calls of main, last registered last
    unaryChain,   \* unaryServerInterceptors
    streamChain,  \* streamServerInterceptors
    validator,    \* server.Validator
    gameServer,   \* the grpc.Server built by grpc.NewServer
    gameLis,      \* the primary listener
    pprofPc,      \* goroutine of lines 100-104
    metricsPc,    \* goroutine of lines 158-161
    mux,          \* http.DefaultServeMux: registered path patterns
    servePc,      \* goroutine of lines 189-194
    provider,     \* gameTraceProvider
    globalTP,     \* otel global tracer provider
    flushes,      \* contexts' states seen by each TracerProvider.Shutdown call
    received,     \* the signals delivered to the process so far
    calls,        \* RPC calls accepted by the server
    log,          \* source lines of the log statements executed so far
    exit          \* how the process ended, if it did

vars == <<env, args, gamePort, mainPc, rootCtx, sigCtx, ctxVar, defers,
          unaryChain, streamChain, validator, gameServer, gameLis, pprofPc,
          metricsPc, mux, servePc, provider, globalTP, flushes, received,
          calls, log, exit>>

----------------------------------------------------------------------------
(* Bounds of the model *)

MaxCalls == 2      \* calls accepted in one run

----------------------------------------------------------------------------
(* Program constants *)

DefaultGamePort == 6565
PortValues == {7000}         \* ports an operator may pass with -gamePort

SIGINT == 2
SIGTERM == 15
Signals == {SIGINT, SIGTERM}

Otel == "otel"
Prom == "prom"
Auth == "auth"

----------------------------------------------------------------------------
(* Strings are sequences of characters so that strings.ToLower is computed *)

Str(s) == [present |-> TRUE, value |-> s]
Unset == [present |-> FALSE, value |-> <<>>]

sTrue == <<"t", "r", "u", "e">>
sFalse == <<"f", "a", "l", "s", "e">>

EnvValues ==
    { Unset,
      Str(sTrue),
      Str(<<"T", "r", "u", "e">>),
      Str(sFalse),
      Str(<<"1">>) }

LowerChar(c) ==
    CASE c = "T" -> "t"
      [] c = "R" -> "r"
      [] c = "U" -> "u"
      [] c = "E" -> "e"
      [] OTHER -> c

ToLower(s) == [i \in 1..Len(s) |-> LowerChar(s[i])]

GetEnv(e, fallback) == IF e.present THEN e.value ELSE fallback

AuthEnabledNotFalse(e) == ToLower(GetEnv(e, sFalse)) # sFalse
AuthEnabled(e) == ToLower(GetEnv(e, sFalse)) = sTrue

----------------------------------------------------------------------------
(* Command line *)

NoArg == [kind |-> "none", port |-> 0]
PortArg(p) == [kind |-> "port", port |-> p]
HelpArg == [kind |-> "help", port |-> 0]
BadArg == [kind |-> "bad", port |-> 0]

ArgValues == {NoArg, HelpArg, BadArg} \cup {PortArg(p) : p \in PortValues}

----------------------------------------------------------------------------
(* Process exit *)

Running == exit.cause = "running"

InFlight == {i \in DOMAIN calls : calls[i].status = "inflight"}

\* the process ends: its code and cause, and the calls it cuts off
Exited(code, cause) ==
    [code |-> code, cause |-> cause, cut |-> Cardinality(InFlight)]

Die(code, cause) ==
    /\ exit' = Exited(code, cause)
    /\ calls' = <<>>

\* the line of the statement that reports each fatal error
FatalLine(cause) ==
    CASE cause = "listen" -> 167
      [] cause = "zipkin" -> 77
      [] cause = "flush" -> 219
      [] cause = "metrics" -> 160
      [] cause = "serve" -> 191

\* logrus.Fatal, logrus.Fatalf, log.Fatal: log, then os.Exit(1)
Fatal(cause) ==
    /\ Die(1, cause)
    /\ log' = log \cup {FatalLine(cause)}

----------------------------------------------------------------------------
(* Contexts *)

CtxState(c) ==
    CASE c = "root" -> rootCtx
      [] c = "sig" -> sigCtx
      [] OTHER -> "none"

\* a context derived from a parent is born cancelled when the parent is
Derived(parent) == IF parent = "active" THEN "active" ELSE "cancelled"

CancelledToggles(c) ==
    CASE c = "none" -> "none"
      [] c = "active" -> "cancelled"
      [] OTHER -> "active"

\* cancelling a context cancels the contexts derived from it
Cancelled(c) == IF c = "none" THEN "none" ELSE "cancelled"

----------------------------------------------------------------------------
(* Deferred calls of main run last registered first *)

NextDeferredFifo(d) == 1
NextDeferred(d) == Len(d)

Without(d, k) == [i \in 1..(Len(d) - 1) |-> IF i < k THEN d[i] ELSE d[i + 1]]

----------------------------------------------------------------------------
(* Interceptor chains *)

BaseChain == <<Otel, Prom>>

WithAuthFirst(chain) == <<Auth>> \o chain
WithAuth(chain) == Append(chain, Auth)

ChainOf(call) ==
    IF call.kind = "unary" THEN gameServer.unary ELSE gameServer.stream

Creds == {"valid", "missing"}
Kinds == {"unary", "stream"}

\* the auth hook lets a call through only with a valid bearer credential
AuthAccepts(cred) == cred = "valid"

----------------------------------------------------------------------------
(* Signals *)

NotifySetIntOnly == {SIGINT}
NotifySet == {SIGINT, SIGTERM}

Registered == sigCtx # "none"

----------------------------------------------------------------------------
Init ==
    /\ env \in EnvValues
    /\ args \in ArgValues
    /\ gamePort = DefaultGamePort
    /\ mainPc = "start"
    /\ rootCtx = "none"
    /\ sigCtx = "none"
    /\ ctxVar = "none"
    /\ defers = <<>>
    /\ unaryChain = <<>>
    /\ streamChain = <<>>
    /\ validator = "nil"
    /\ gameServer = [built |-> FALSE, unary |-> <<>>, stream |-> <<>>, services |-> {}]
    /\ gameLis = [state |-> "none", port |-> 0]
    /\ pprofPc = "idle"
    /\ metricsPc = "idle"
    /\ mux = {"/debug/pprof/"}
    /\ servePc = "idle"
    /\ provider = "none"
    /\ globalTP = "noop"
    /\ flushes = <<>>
    /\ received = {}
    /\ calls = <<>>
    /\ log = {}
    /\ exit = [code |-> -1, cause |-> "running", cut |-> 0]

----------------------------------------------------------------------------
(* The main goroutine *)

StartPprof ==
    /\ Running /\ mainPc = "start"
    /\ pprofPc' = "spawned"
    /\ mainPc' = "ctx"
    /\ UNCHANGED <<env, args, gamePort, rootCtx, sigCtx, ctxVar, defers,
                   unaryChain, streamChain, validator, gameServer, gameLis,
                   metricsPc, mux, servePc, provider, globalTP, flushes,
                   received, calls, exit>>
    /\ log' = log \cup {105}

NewRootCtx ==
    /\ Running /\ mainPc = "ctx"
    /\ rootCtx' = "active"
    /\ ctxVar' = "root"
    /\ defers' = Append(defers, [fn |-> "cancel", ctx |-> "root"])
    /\ mainPc' = "chains"
    /\ UNCHANGED <<env, args, gamePort, sigCtx, unaryChain, streamChain,
                   validator, gameServer, gameLis, pprofPc, metricsPc, mux,
                   servePc, provider, globalTP, flushes, received, calls, exit>>
    /\ log' = log \cup {107}

BuildChains ==
    /\ Running /\ mainPc = "chains"
    /\ unaryChain' = BaseChain
    /\ streamChain' = BaseChain
    /\ mainPc' = "authcheck"
    /\ UNCHANGED <<env, args, gamePort, rootCtx, sigCtx, ctxVar, defers,
                   validator, gameServer, gameLis, pprofPc, metricsPc, mux,
                   servePc, provider, globalTP, flushes, received, calls, exit>>
    /\ UNCHANGED log

CheckAuth ==
    /\ Running /\ mainPc = "authcheck"
    /\ mainPc' = IF AuthEnabled(env) THEN "validator" ELSE "newserver"
    /\ UNCHANGED <<env, args, gamePort, rootCtx, sigCtx, ctxVar, defers,
                   unaryChain, streamChain, validator, gameServer, gameLis,
                   pprofPc, metricsPc, mux, servePc, provider, globalTP,
                   flushes, received, calls, exit>>
    /\ UNCHANGED log

NewValidator ==
    /\ Running /\ mainPc = "validator"
    /\ validator' = "constructed"
    /\ mainPc' = "authinit"
    /\ UNCHANGED <<env, args, gamePort, rootCtx, sigCtx, ctxVar, defers,
                   unaryChain, streamChain, gameServer, gameLis, pprofPc,
                   metricsPc, mux, servePc, provider, globalTP, flushes,
                   received, calls, exit>>
    /\ UNCHANGED log

\* Initialize() is called as a statement: whatever it reports is dropped
InitValidator ==
    /\ Running /\ mainPc = "authinit"
    /\ \E ok \in BOOLEAN :
          validator' = IF ok THEN "initialized" ELSE "initfailed"
    /\ mainPc' = "authappend"
    /\ UNCHANGED <<env, args, gamePort, rootCtx, sigCtx, ctxVar, defers,
                   unaryChain, streamChain, gameServer, gameLis, pprofPc,
                   metricsPc, mux, servePc, provider, globalTP, flushes,
                   received, calls, exit>>
    /\ UNCHANGED log

AppendAuth ==
    /\ Running /\ mainPc = "authappend"
    /\ unaryChain' = WithAuth(unaryChain)
    /\ streamChain' = WithAuth(streamChain)
    /\ mainPc' = "newserver"
    /\ UNCHANGED <<env, args, gamePort, rootCtx, sigCtx, ctxVar, defers,
                   validator, gameServer, gameLis, pprofPc, metricsPc, mux,
                   servePc, provider, globalTP, flushes, received, calls, exit>>
    /\ log' = log \cup {134}

NewServer ==
    /\ Running /\ mainPc = "newserver"
    /\ gameServer' = [gameServer EXCEPT !.built = TRUE,
                                        !.unary = unaryChain,
                                        !.stream = streamChain]
    /\ mainPc' = "spawnmetrics"
    /\ UNCHANGED <<env, args, gamePort, rootCtx, sigCtx, ctxVar, defers,
                   unaryChain, streamChain, validator, gameLis, pprofPc,
                   metricsPc, mux, servePc, provider, globalTP, flushes,
                   received, calls, exit>>
    /\ UNCHANGED log

StartMetrics ==
    /\ Running /\ mainPc = "spawnmetrics"
    /\ metricsPc' = "spawned"
    /\ mainPc' = "listen"
    /\ UNCHANGED <<env, args, gamePort, rootCtx, sigCtx, ctxVar, defers,
                   unaryChain, streamChain, validator, gameServer, gameLis,
                   pprofPc, mux, servePc, provider, globalTP, flushes,
                   received, calls, exit>>
    /\ log' = log \cup {162}

ListenNoAbort ==
    /\ Running /\ mainPc = "listen"
    /\ \/ gameLis' = [state |-> "bound", port |-> gamePort]
       \/ gameLis' = [state |-> "failed", port |-> gamePort]
    /\ mainPc' = "register"
    /\ UNCHANGED <<env, args, gamePort, rootCtx, sigCtx, ctxVar, defers,
                   unaryChain, streamChain, validator, gameServer, pprofPc,
                   metricsPc, mux, servePc, provider, globalTP, flushes,
                   received, calls, exit>>
    /\ UNCHANGED log

\* net.Listen on the port held by the flag variable at this point
Listen ==
    /\ Running /\ mainPc = "listen"
    /\ \/ /\ gameLis' = [state |-> "bound", port |-> gamePort]
          /\ mainPc' = "register"
          /\ log' = log \cup {164}
          /\ UNCHANGED <<exit, calls>>
       \/ /\ gameLis' = [state |-> "failed", port |-> gamePort]
          /\ Die(1, "listen")
          /\ log' = log \cup {164, FatalLine("listen")}
          /\ UNCHANGED mainPc
    /\ UNCHANGED <<env, args, gamePort, rootCtx, sigCtx, ctxVar, defers,
                   unaryChain, streamChain, validator, gameServer, pprofPc,
                   metricsPc, mux, servePc, provider, globalTP, flushes,
                   received>>

Register ==
    /\ Running /\ mainPc = "register"
    /\ gameServer' = [gameServer EXCEPT
                        !.services = {"MatchFunction", "reflection", "health"}]
    /\ mainPc' = "spawnserve"
    /\ UNCHANGED <<env, args, gamePort, rootCtx, sigCtx, ctxVar, defers,
                   unaryChain, streamChain, validator, gameLis, pprofPc,
                   metricsPc, mux, servePc, provider, globalTP, flushes,
                   received, calls, exit>>
    /\ log' = log \cup {178, 182, 186, 188}

StartServe ==
    /\ Running /\ mainPc = "spawnserve"
    /\ servePc' = "spawned"
    /\ mainPc' = "initprovider"
    /\ UNCHANGED <<env, args, gamePort, rootCtx, sigCtx, ctxVar, defers,
                   unaryChain, streamChain, validator, gameServer, gameLis,
                   pprofPc, metricsPc, mux, provider, globalTP, flushes,
                   received, calls, exit>>
    /\ UNCHANGED log

InitProvider ==
    /\ Running /\ mainPc = "initprovider"
    /\ \/ /\ provider' = "created"
          /\ mainPc' = "setglobal"
          /\ log' = log \cup {197}
          /\ UNCHANGED <<exit, calls>>
       \/ /\ Die(1, "zipkin")
          /\ log' = log \cup {197, FatalLine("zipkin")}
          /\ UNCHANGED <<provider, mainPc>>
    /\ UNCHANGED <<env, args, gamePort, rootCtx, sigCtx, ctxVar, defers,
                   unaryChain, streamChain, validator, gameServer, gameLis,
                   pprofPc, metricsPc, mux, servePc, globalTP, flushes,
                   received>>

SetGlobal ==
    /\ Running /\ mainPc = "setglobal"
    /\ globalTP' = "sdk"
    /\ mainPc' = "deferflush"
    /\ UNCHANGED <<env, args, gamePort, rootCtx, sigCtx, ctxVar, defers,
                   unaryChain, streamChain, validator, gameServer, gameLis,
                   pprofPc, metricsPc, mux, servePc, provider, flushes,
                   received, calls, exit>>
    /\ UNCHANGED log

\* the argument ctx of the deferred function is evaluated here
DeferFlush ==
    /\ Running /\ mainPc = "deferflush"
    /\ defers' = Append(defers, [fn |-> "shutdown", ctx |-> ctxVar])
    /\ mainPc' = "flagparse"
    /\ UNCHANGED <<env, args, gamePort, rootCtx, sigCtx, ctxVar, unaryChain,
                   streamChain, validator, gameServer, gameLis, pprofPc,
                   metricsPc, mux, servePc, provider, globalTP, flushes,
                   received, calls, exit>>
    /\ UNCHANGED log

\* flag.Parse on the ExitOnError command line
FlagParse ==
    /\ Running /\ mainPc = "flagparse"
    /\ \/ /\ args.kind = "none"
          /\ mainPc' = "notify"
          /\ UNCHANGED <<gamePort, exit, calls>>
       \/ /\ args.kind = "port"
          /\ gamePort' = args.port
          /\ mainPc' = "notify"
          /\ UNCHANGED <<exit, calls>>
       \/ /\ args.kind = "help"
          /\ Die(0, "flag_help")
          /\ UNCHANGED <<gamePort, mainPc>>
       \/ /\ args.kind = "bad"
          /\ Die(2, "flag_error")
          /\ UNCHANGED <<gamePort, mainPc>>
    /\ UNCHANGED <<env, args, rootCtx, sigCtx, ctxVar, defers, unaryChain,
                   streamChain, validator, gameServer, gameLis, pprofPc,
                   metricsPc, mux, servePc, provider, globalTP, flushes,
                   received>>
    /\ UNCHANGED log

NotifyContext ==
    /\ Running /\ mainPc = "notify"
    /\ sigCtx' = Derived(CtxState(ctxVar))
    /\ ctxVar' = "sig"
    /\ mainPc' = "wait"
    /\ UNCHANGED <<env, args, gamePort, rootCtx, defers, unaryChain,
                   streamChain, validator, gameServer, gameLis, pprofPc,
                   metricsPc, mux, servePc, provider, globalTP, flushes,
                   received, calls, exit>>
    /\ UNCHANGED log

WaitOnMetrics ==
    /\ Running /\ mainPc = "wait"
    /\ CtxState(ctxVar) = "cancelled"
    /\ metricsPc = "serving"
    /\ mainPc' = "return"
    /\ UNCHANGED <<env, args, gamePort, rootCtx, sigCtx, ctxVar, defers,
                   unaryChain, streamChain, validator, gameServer, gameLis,
                   pprofPc, metricsPc, mux, servePc, provider, globalTP,
                   flushes, received, calls, exit>>
    /\ UNCHANGED log

\* <-ctx.Done(), then the farewell line; main is about to return
Wait ==
    /\ Running /\ mainPc = "wait"
    /\ CtxState(ctxVar) = "cancelled"
    /\ mainPc' = "return"
    /\ UNCHANGED <<env, args, gamePort, rootCtx, sigCtx, ctxVar, defers,
                   unaryChain, streamChain, validator, gameServer, gameLis,
                   pprofPc, metricsPc, mux, servePc, provider, globalTP,
                   flushes, received, calls, exit>>
    /\ UNCHANGED log


\* main returns: the deferred calls run; Shutdown is entered with the context
\* captured when it was deferred
RunDeferred ==
    /\ Running /\ mainPc = "return" /\ defers # <<>>
    /\ LET k == NextDeferred(defers)
           d == defers[k]
       IN  /\ defers' = Without(defers, k)
           /\ \/ /\ d.fn = "shutdown"
                 /\ flushes' = Append(flushes, CtxState(d.ctx))
                 /\ provider' = "flushing"
                 /\ mainPc' = "flushing"
                 /\ UNCHANGED <<rootCtx, sigCtx>>
              \/ /\ d.fn = "cancel"
                 /\ rootCtx' = Cancelled(rootCtx)
                 /\ sigCtx' = Cancelled(sigCtx)
                 /\ UNCHANGED <<flushes, provider, mainPc>>
    /\ UNCHANGED <<env, args, gamePort, ctxVar, unaryChain, streamChain,
                   validator, gameServer, gameLis, pprofPc, metricsPc, mux,
                   servePc, globalTP, received, calls, exit>>
    /\ UNCHANGED log

\* TracerProvider.Shutdown returns; an error is fatal
FlushReturn ==
    /\ Running /\ mainPc = "flushing"
    /\ provider' = "shutdown"
    /\ \/ /\ mainPc' = "return"
          /\ UNCHANGED <<exit, calls, log>>
       \/ /\ Fatal("flush")
          /\ UNCHANGED mainPc
    /\ UNCHANGED <<env, args, gamePort, rootCtx, sigCtx, ctxVar, defers,
                   unaryChain, streamChain, validator, gameServer, gameLis,
                   pprofPc, metricsPc, mux, servePc, globalTP, flushes,
                   received>>

MainReturnDrained ==
    /\ Running /\ mainPc = "return" /\ defers = <<>>
    /\ InFlight = {}
    /\ Die(0, "main_return")
    /\ UNCHANGED <<env, args, gamePort, mainPc, rootCtx, sigCtx, ctxVar,
                   defers, unaryChain, streamChain, validator, gameServer,
                   gameLis, pprofPc, metricsPc, mux, servePc, provider,
                   globalTP, flushes, received>>
    /\ UNCHANGED log

\* the last deferred call has returned: main returns and the process exits
MainReturn ==
    /\ Running /\ mainPc = "return" /\ defers = <<>>
    /\ Die(0, "main_return")
    /\ UNCHANGED <<env, args, gamePort, mainPc, rootCtx, sigCtx, ctxVar,
                   defers, unaryChain, streamChain, validator, gameServer,
                   gameLis, pprofPc, metricsPc, mux, servePc, provider,
                   globalTP, flushes, received>>
    /\ UNCHANGED log

----------------------------------------------------------------------------
(* The background goroutines *)

\* http.ListenAndServe(":6060", nil); its error is assigned to _
PprofListen ==
    /\ Running /\ pprofPc = "spawned"
    /\ \/ pprofPc' = "serving"
       \/ pprofPc' = "failed"
    /\ UNCHANGED <<env, args, gamePort, mainPc, rootCtx, sigCtx, ctxVar,
                   defers, unaryChain, streamChain, validator, gameServer,
                   gameLis, metricsPc, mux, servePc, provider, globalTP,
                   flushes, received, calls, exit>>
    /\ UNCHANGED log

MetricsHandle ==
    /\ Running /\ metricsPc = "spawned"
    /\ mux' = mux \cup {"/metrics"}
    /\ metricsPc' = "handled"
    /\ UNCHANGED <<env, args, gamePort, mainPc, rootCtx, sigCtx, ctxVar,
                   defers, unaryChain, streamChain, validator, gameServer,
                   gameLis, pprofPc, servePc, provider, globalTP, flushes,
                   received, calls, exit>>
    /\ UNCHANGED log

MetricsListenNotFatal ==
    /\ Running /\ metricsPc = "handled"
    /\ \/ metricsPc' = "serving"
       \/ metricsPc' = "failed"
    /\ UNCHANGED <<env, args, gamePort, mainPc, rootCtx, sigCtx, ctxVar,
                   defers, unaryChain, streamChain, validator, gameServer,
                   gameLis, pprofPc, mux, servePc, provider, globalTP,
                   flushes, received, calls, exit>>
    /\ UNCHANGED log

\* log.Fatal(http.ListenAndServe(":8080", nil))
MetricsListen ==
    /\ Running /\ metricsPc = "handled"
    /\ \/ /\ metricsPc' = "serving"
          /\ UNCHANGED <<exit, calls, log>>
       \/ /\ metricsPc' = "failed"
          /\ Fatal("metrics")
    /\ UNCHANGED <<env, args, gamePort, mainPc, rootCtx, sigCtx, ctxVar,
                   defers, unaryChain, streamChain, validator, gameServer,
                   gameLis, pprofPc, mux, servePc, provider, globalTP,
                   flushes, received>>

\* gameServer.Serve(gameLis) starts accepting
Serve ==
    /\ Running /\ servePc = "spawned"
    /\ gameLis.state = "bound"
    /\ servePc' = "serving"
    /\ UNCHANGED <<env, args, gamePort, mainPc, rootCtx, sigCtx, ctxVar,
                   defers, unaryChain, streamChain, validator, gameServer,
                   gameLis, pprofPc, metricsPc, mux, provider, globalTP,
                   flushes, received, calls, exit>>
    /\ UNCHANGED log

\* gameServer.Serve returns an error
ServeFail ==
    /\ Running /\ servePc \in {"spawned", "serving"}
    /\ servePc' = "failed"
    /\ Fatal("serve")
    /\ UNCHANGED <<env, args, gamePort, mainPc, rootCtx, sigCtx, ctxVar,
                   defers, unaryChain, streamChain, validator, gameServer,
                   gameLis, pprofPc, metricsPc, mux, provider, globalTP,
                   flushes, received>>

----------------------------------------------------------------------------
(* Both HTTP listeners are given a nil handler and so serve the paths of    *)
(* http.DefaultServeMux, as long as the process runs                       *)

PprofRoutes == IF Running /\ pprofPc = "serving" THEN mux ELSE {}

MetricsRoutesOwn == IF Running /\ metricsPc = "serving" THEN {"/metrics"} ELSE {}
MetricsRoutes == IF Running /\ metricsPc = "serving" THEN mux ELSE {}

----------------------------------------------------------------------------
(* Signals: caught once signal.NotifyContext has registered them, and      *)
(* otherwise ending the process by their default disposition               *)

Deliver(s) ==
    /\ Running
    /\ received' = received \cup {s}
    /\ \/ /\ Registered /\ s \in NotifySet
          /\ sigCtx' = Cancelled(sigCtx)
          /\ UNCHANGED <<exit, calls>>
       \/ /\ ~(Registered /\ s \in NotifySet)
          /\ Die(128 + s, "signal")
          /\ UNCHANGED sigCtx
    /\ UNCHANGED <<env, args, gamePort, mainPc, rootCtx, ctxVar, defers,
                   unaryChain, streamChain, validator, gameServer, gameLis,
                   pprofPc, metricsPc, mux, servePc, provider, globalTP,
                   flushes>>
    /\ UNCHANGED log

----------------------------------------------------------------------------
(* Calls dispatched by the accept loop through the server's chains *)

NewCall(kind, cred) ==
    [kind |-> kind, cred |-> cred, ran |-> <<>>, status |-> "inflight"]

Accept(kind, cred) ==
    /\ Running /\ servePc = "serving"
    /\ Len(calls) < MaxCalls
    /\ calls' = Append(calls, NewCall(kind, cred))
    /\ UNCHANGED <<env, args, gamePort, mainPc, rootCtx, sigCtx, ctxVar,
                   defers, unaryChain, streamChain, validator, gameServer,
                   gameLis, pprofPc, metricsPc, mux, servePc, provider,
                   globalTP, flushes, received, exit>>
    /\ UNCHANGED log

\* The chain built by grpc.ChainUnaryInterceptor / ChainStreamInterceptor:
\* each hook runs and calls the next; the last one calls the service handler.
\* The auth hook returns Unauthenticated instead of calling on.
RECURSIVE RunChain(_, _, _)
RunChain(chain, cred, ran) ==
    IF chain = <<>>
    THEN [ran |-> ran, status |-> "handled"]
    ELSE LET h == Head(chain)
         IN  IF h = Auth /\ ~AuthAccepts(cred)
             THEN [ran |-> Append(ran, h), status |-> "rejected"]
             ELSE RunChain(Tail(chain), cred, Append(ran, h))

OutcomeNeedsProvider(call) ==
    IF globalTP = "noop"
    THEN [ran |-> <<>>, status |-> "rejected"]
    ELSE RunChain(ChainOf(call), call.cred, <<>>)

Outcome(call) == RunChain(ChainOf(call), call.cred, <<>>)

Dispatch(i) ==
    /\ Running /\ i \in DOMAIN calls
    /\ calls[i].status = "inflight"
    /\ LET o == Outcome(calls[i])
       IN  calls' = [calls EXCEPT ![i].ran = o.ran, ![i].status = o.status]
    /\ UNCHANGED <<env, args, gamePort, mainPc, rootCtx, sigCtx, ctxVar,
                   defers, unaryChain, streamChain, validator, gameServer,
                   gameLis, pprofPc, metricsPc, mux, servePc, provider,
                   globalTP, flushes, received, exit>>
    /\ UNCHANGED log

----------------------------------------------------------------------------
Next ==
    \/ StartPprof \/ NewRootCtx \/ BuildChains \/ CheckAuth
    \/ NewValidator \/ InitValidator \/ AppendAuth \/ NewServer
    \/ StartMetrics \/ Listen \/ Register \/ StartServe
    \/ InitProvider \/ SetGlobal \/ DeferFlush \/ FlagParse
    \/ NotifyContext \/ Wait \/ RunDeferred \/ FlushReturn
    \/ MainReturn
    \/ PprofListen \/ MetricsHandle \/ MetricsListen \/ Serve \/ ServeFail
    \/ \E s \in Signals : Deliver(s)
    \/ \E kind \in Kinds, cred \in Creds : Accept(kind, cred)
    \/ \E i \in 1..MaxCalls : Dispatch(i)

Spec == Init /\ [][Next]_vars

\* The main goroutine is runnable once the context it waits on is cancelled
\* and through its return and deferred calls: the Go scheduler runs it.
MainExit == Wait \/ RunDeferred \/ FlushReturn \/ MainReturn

SpecFair == Spec /\ WF_vars(MainExit)

----------------------------------------------------------------------------
(* Vocabulary of the properties *)

Has(chain, h) == \E i \in DOMAIN chain : chain[i] = h
Idx(chain, h) == CHOOSE i \in DOMAIN chain : chain[i] = h

\* tracing before metrics before auth, auth last when present, no hook twice
WellOrdered(chain) ==
    /\ Has(chain, Otel) /\ Has(chain, Prom)
    /\ Idx(chain, Otel) < Idx(chain, Prom)
    /\ Has(chain, Auth) =>
          /\ Idx(chain, Prom) < Idx(chain, Auth)
          /\ Idx(chain, Auth) = Len(chain)
    /\ \A i, j \in DOMAIN chain : chain[i] = chain[j] => i = j

\* the option is set to "true" in any mix of upper and lower case
CaseInsensitiveTrue(e) ==
    /\ e.present
    /\ Len(e.value) = 4
    /\ e.value[1] \in {"t", "T"}
    /\ e.value[2] \in {"r", "R"}
    /\ e.value[3] \in {"u", "U"}
    /\ e.value[4] \in {"e", "E"}

\* the port the operator configured on the command line
ConfiguredPort(a) == IF a.kind = "port" THEN a.port ELSE DefaultGamePort

\* states of the orchestrator (spec section 4.5) read off the main goroutine
Lifecycle ==
    CASE ~Running -> "Terminated"
      [] mainPc \in {"start", "ctx", "chains", "authcheck", "validator",
                     "authinit", "authappend", "newserver", "spawnmetrics"}
            -> "Initializing"
      [] mainPc \in {"listen", "register", "spawnserve"} -> "Starting"
      [] mainPc \in {"initprovider", "setglobal", "deferflush", "flagparse",
                     "notify", "wait"} -> "Serving"
      [] OTHER -> "ShuttingDown"

----------------------------------------------------------------------------
(* C1: from the construction of the RPC server on, in every configuration, *)
(* the unary and the streaming chain are tracing, metrics and then, exactly*)
(* when auth is enabled, auth as the last hook; and once the server is     *)
(* built no step changes either chain.                                     *)

C1_Ordered ==
    gameServer.built =>
        /\ WellOrdered(gameServer.unary)
        /\ WellOrdered(gameServer.stream)
        /\ Has(gameServer.unary, Auth) <=> CaseInsensitiveTrue(env)
        /\ Has(gameServer.stream, Auth) <=> CaseInsensitiveTrue(env)

C1_Frozen ==
    gameServer.built =>
        /\ gameServer'.built
        /\ gameServer'.unary = gameServer.unary
        /\ gameServer'.stream = gameServer.stream

C1_ChainOrderInvariant == []C1_Ordered /\ [][C1_Frozen]_vars

C1_Witness ==
    /\ gameServer.built
    /\ gameServer.unary = <<Otel, Prom, Auth>>
    /\ gameServer.stream = <<Otel, Prom, Auth>>
    /\ \E i \in DOMAIN calls : calls[i].status # "inflight"
    /\ mainPc = "return"

----------------------------------------------------------------------------
(* C2: with auth enabled, a call without a valid bearer credential never   *)
(* reaches the handler; when it is rejected the tracing and the metrics    *)
(* hook have already run for it; and the step that rejects it changes no   *)
(* other call and nothing of the process's lifecycle.                      *)

C2_Rejected ==
    CaseInsensitiveTrue(env) =>
        \A i \in DOMAIN calls :
            ~(calls[i].cred = "valid") =>
                /\ calls[i].status # "handled"
                /\ calls[i].status = "rejected" =>
                      /\ Has(calls[i].ran, Otel) /\ Has(calls[i].ran, Prom)
                      /\ Idx(calls[i].ran, Otel) < Idx(calls[i].ran, Auth)
                      /\ Idx(calls[i].ran, Prom) < Idx(calls[i].ran, Auth)

C2_Contained ==
    \A i \in DOMAIN calls :
        (/\ calls[i].status = "inflight"
         /\ i \in DOMAIN calls'
         /\ calls'[i].status = "rejected") =>
            /\ DOMAIN calls' = DOMAIN calls
            /\ \A j \in DOMAIN calls : j # i => calls'[j] = calls[j]
            /\ UNCHANGED <<mainPc, exit, servePc, pprofPc, metricsPc, gameLis,
                           gameServer, rootCtx, sigCtx, provider, validator>>

C2_RejectedBeforeHandler == []C2_Rejected /\ [][C2_Contained]_vars

C2_Witness ==
    /\ Running
    /\ Len(calls) = 2
    /\ calls[1].cred = "missing" /\ calls[1].status = "rejected"
    /\ calls[1].ran = <<Otel, Prom, Auth>>
    /\ calls[2].cred = "valid" /\ calls[2].status = "handled"

----------------------------------------------------------------------------
(* C3: with auth disabled (the option unset, or set to anything but a      *)
(* case-insensitive "true") no token validator is constructed, both chains *)
(* are exactly tracing and metrics, and every dispatched call reaches the  *)
(* handler with no auth hook run for it, whatever its credential.          *)

C3_AuthDisabledNoCheck ==
    ~CaseInsensitiveTrue(env) =>
        /\ validator = "nil"
        /\ gameServer.built =>
              /\ gameServer.unary = <<Otel, Prom>>
              /\ gameServer.stream = <<Otel, Prom>>
        /\ \A i \in DOMAIN calls :
              /\ ~Has(calls[i].ran, Auth)
              /\ calls[i].status # "rejected"
              /\ calls[i].status # "inflight" =>
                    /\ calls[i].status = "handled"
                    /\ calls[i].ran = <<Otel, Prom>>

C3_Witness ==
    /\ env.present /\ ~CaseInsensitiveTrue(env)
    /\ validator = "nil"
    /\ \E i \in DOMAIN calls :
          /\ calls[i].cred = "missing" /\ calls[i].kind = "stream"
          /\ calls[i].status = "handled"

----------------------------------------------------------------------------
(* C4 as stated: when the primary bind fails because the port is in use,   *)
(* neither the profiling nor the metrics listener nor the primary listener *)
(* is bound and serving.                                                   *)

C4_NoEndpointExposed ==
    gameLis.state = "failed" =>
        /\ pprofPc # "serving"
        /\ metricsPc # "serving"
        /\ servePc # "serving"

(* C4 amended: when the primary bind fails, the process ends at once with  *)
(* exit code 1, before the service is registered, the accept loop started, *)
(* the tracing provider created or any call accepted.                      *)

C4_AbortsBeforePrimary ==
    gameLis.state = "failed" =>
        /\ exit.code = 1 /\ exit.cause = "listen"
        /\ gameServer.services = {}
        /\ servePc = "idle"
        /\ provider = "none"
        /\ calls = <<>> /\ exit.cut = 0

C4_Witness ==
    /\ gameLis.state = "failed"
    /\ pprofPc = "serving"
    /\ metricsPc = "serving"
    /\ "/metrics" \in mux

----------------------------------------------------------------------------
(* C5: with auth enabled, once the validator's initialization has failed   *)
(* the primary listener is never bound, the accept loop never serves and   *)
(* no call is accepted.                                                    *)

C5_NoServingAfterInitFailure ==
    validator = "initfailed" =>
        /\ gameLis.state # "bound"
        /\ servePc # "serving"
        /\ calls = <<>>

----------------------------------------------------------------------------
(* C6: the port handed to the primary bind is the port given with the      *)
(* listen-port option, and 6565 only when the option is not given.         *)

C6_BindsConfiguredPort ==
    gameLis.state # "none" => gameLis.port = ConfiguredPort(args)

----------------------------------------------------------------------------
(* C7 as stated: in whichever state a termination signal arrives, the      *)
(* process keeps running and the Termination Context is cancelled.         *)

C7_AnyStateStep ==
    received' # received => /\ exit' = exit
                            /\ sigCtx' = "cancelled"

C7_RegisteredStep ==
    received' # received =>
        IF Registered
        THEN /\ sigCtx' = "cancelled"
             /\ UNCHANGED <<env, args, gamePort, mainPc, rootCtx, ctxVar,
                            defers, unaryChain, streamChain, validator,
                            gameServer, gameLis, pprofPc, metricsPc, mux,
                            servePc, provider, globalTP, flushes, calls, exit>>
        ELSE /\ exit'.cause = "signal" /\ exit'.code # 0
             /\ UNCHANGED <<rootCtx, sigCtx, flushes, mainPc>>

----------------------------------------------------------------------------
(* C8: the flush is invoked only after a signal was received and the       *)
(* Termination Context cancelled, and once the context is cancelled the    *)
(* process does not terminate before the flush has been invoked.           *)

C8_CancelFlushExit ==
    /\ flushes # <<>> => (received # {} /\ sigCtx = "cancelled")
    /\ (~Running /\ sigCtx = "cancelled") => flushes # <<>>

----------------------------------------------------------------------------
(* C9: the flush is never invoked more than once, and every execution that *)
(* has entered ShuttingDown has invoked it exactly once when the process   *)
(* has terminated.                                                         *)

C9_FlushExactlyOnce ==
    /\ Len(flushes) <= 1
    /\ (~Running /\ mainPc \in {"return", "flushing"}) => Len(flushes) = 1

----------------------------------------------------------------------------
(* C10: the exit code is non-zero after each fatal failure (primary bind,  *)
(* metrics bind, exporter construction, auth initialization, flush) and is *)
(* zero exactly when main returns after a signal and a successful flush.   *)

C10_ExitCodes ==
    ~Running =>
        /\ gameLis.state = "failed" => exit.code # 0
        /\ metricsPc = "failed" => exit.code # 0
        /\ exit.cause \in {"zipkin", "flush"} => exit.code # 0
        /\ validator = "initfailed" => exit.code # 0
        /\ exit.code = 0 <=>
              /\ exit.cause = "main_return"
              /\ received # {}
              /\ Len(flushes) = 1

----------------------------------------------------------------------------
(* C11: the Termination Context goes from active to cancelled once and     *)
(* never back, whichever signals arrive and in whichever order; a signal   *)
(* that arrives after the cancellation changes nothing in the process; the *)
(* main flow leaves its wait once and never returns to it; and the         *)
(* shutdown sequence (the flush) runs at most once.                        *)

C11_OneWay ==
    /\ sigCtx = "cancelled" => sigCtx' = "cancelled"
    /\ sigCtx = "active" => sigCtx' \in {"active", "cancelled"}
    /\ (received' # received /\ sigCtx = "cancelled") =>
          UNCHANGED <<mainPc, rootCtx, sigCtx, defers, provider, flushes,
                      servePc, calls, exit>>
    /\ mainPc \in {"return", "flushing"} => mainPc' \in {"return", "flushing"}

C11_Once == Len(flushes) <= 1 /\ (mainPc \in {"return", "flushing"} => sigCtx = "cancelled")

----------------------------------------------------------------------------
(* C12 as stated: when the metrics endpoint fails to bind, the process     *)
(* terminates before the primary listener is bound and before any call is  *)
(* accepted.                                                               *)

C12_MetricsFailureBeforePrimary ==
    metricsPc = "failed" =>
        /\ gameLis.state # "bound"
        /\ servePc # "serving"

(* C12 amended: a failed metrics bind ends the process at once with exit   *)
(* code 1, so no state has the process running with the metrics bind       *)
(* failed; the bind runs on a background task beside the main flow.        *)

C12_MetricsFailureFatal ==
    metricsPc = "failed" =>
        /\ ~Running
        /\ exit.code = 1 /\ exit.cause = "metrics"
        /\ "/metrics" \in mux

C12_Witness ==
    /\ metricsPc = "failed"
    /\ gameLis.state = "bound"
    /\ servePc = "serving"
    /\ exit.cut > 0

----------------------------------------------------------------------------
(* C13: when the profiling endpoint fails to bind, the failure is recorded *)
(* in the log by the task that attempted the bind (lines 100-104), and the *)
(* process is not ended by it.                                             *)

PprofTaskLines == 100..104

C13_PprofFailureLogged ==
    pprofPc = "failed" => log \cap PprofTaskLines # {}

----------------------------------------------------------------------------
(* C14: the accept loop dispatches calls whether or not the global tracing *)
(* provider is installed; a call dispatched before the installation runs   *)
(* the tracing hook against the no-op provider and goes on through the     *)
(* chain, reaching the handler unless the auth hook rejects it.            *)

C14_DispatchedBeforeProvider ==
    /\ \A i \in InFlight : Running => ENABLED Dispatch(i)
    /\ globalTP = "noop" =>
          \A i \in DOMAIN calls :
              calls[i].status # "inflight" =>
                  /\ Has(calls[i].ran, Otel)
                  /\ calls[i].status = "handled" <=>
                        (~Has(ChainOf(calls[i]), Auth) \/ calls[i].cred = "valid")

C14_Witness ==
    /\ Running
    /\ globalTP = "noop" /\ provider = "none"
    /\ \E i \in DOMAIN calls :
          /\ calls[i].status = "handled"
          /\ calls[i].ran[1] = Otel

----------------------------------------------------------------------------
(* C15 as stated: a signal received while the process is Serving moves it  *)
(* to ShuttingDown and only then to Terminated, so the step that receives  *)
(* the signal never ends the process.                                      *)

C15_ServingSignalStep ==
    (Lifecycle = "Serving" /\ received' # received) => Running'

C15_BlocksOnlyOnTermination ==
    (Running /\ mainPc = "wait") => (ENABLED Wait <=> sigCtx = "cancelled")

----------------------------------------------------------------------------
(* C16: once the tracing provider has been created, the process never      *)
(* terminates without the flush having been invoked, whatever ends it,     *)
(* background-task failures included.                                      *)

C16_NoExitWithoutFlush ==
    (~Running /\ provider # "none") => flushes # <<>>

----------------------------------------------------------------------------
(* C17: the flush is entered with the root context, captured when the      *)
(* flush was deferred and not the Termination Context bound to the same    *)
(* variable later; that context is still active whenever the flush runs,   *)
(* and the root cancellation runs only after the flush has returned.       *)

C17_FlushSeesActiveRoot ==
    /\ \A i \in DOMAIN flushes : flushes[i] = "active"
    /\ \A k \in DOMAIN defers :
          defers[k].fn = "shutdown" => defers[k].ctx = "root"
    /\ mainPc = "flushing" => rootCtx = "active"
    /\ rootCtx = "cancelled" => provider = "shutdown"

C17_Witness ==
    /\ Running
    /\ flushes = <<"active">>
    /\ ctxVar = "sig" /\ sigCtx = "cancelled"
    /\ rootCtx = "cancelled"

----------------------------------------------------------------------------
(* C18: shutting down never stops or drains the RPC server: while main     *)
(* unwinds, the listener stays bound and the accept loop keeps running and *)
(* accepting, and main's return, which ends the process, does not wait for *)
(* calls in flight.                                                        *)

C18_ServerNeverStopped ==
    /\ Lifecycle = "ShuttingDown" =>
          /\ gameLis.state = "bound"
          /\ servePc \in {"spawned", "serving"}
          /\ (servePc = "serving" /\ Len(calls) < MaxCalls) =>
                ENABLED (\E kind \in Kinds, cred \in Creds : Accept(kind, cred))
    /\ (Running /\ mainPc = "return" /\ defers = <<>>) => ENABLED MainReturn

C18_Witness ==
    /\ exit.cause = "main_return" /\ exit.code = 0
    /\ exit.cut > 0
    /\ servePc = "serving"

----------------------------------------------------------------------------
(* C19: the pprof listener (6060) and the metrics listener (8080) serve    *)
(* one handler table. The profiling paths are in it from the start and     *)
(* /metrics from its registration on; a bound listener of either kind      *)
(* serves whatever the table holds: after the registration /metrics is     *)
(* served on the pprof port and the profiling paths on the metrics port,   *)
(* before it a bound pprof listener serves the profiling paths only.       *)

C19_SharedHandlerTable ==
    /\ "/debug/pprof/" \in mux
    /\ "/metrics" \in mux <=> metricsPc \in {"handled", "serving", "failed"}
    /\ (Running /\ pprofPc = "serving") =>
          /\ "/debug/pprof/" \in PprofRoutes
          /\ "/metrics" \in PprofRoutes <=> "/metrics" \in mux
    /\ (Running /\ metricsPc = "serving") =>
          /\ "/metrics" \in MetricsRoutes
          /\ "/debug/pprof/" \in MetricsRoutes
    /\ (Running /\ pprofPc = "serving" /\ metricsPc = "serving") =>
          PprofRoutes = MetricsRoutes

C19_Witness ==
    /\ Running
    /\ pprofPc = "serving" /\ metricsPc = "serving"
    /\ "/metrics" \in PprofRoutes
    /\ "/debug/pprof/" \in MetricsRoutes

C19_BeforeRegistration ==
    /\ Running
    /\ pprofPc = "serving" /\ metricsPc \in {"idle", "spawned"}
    /\ PprofRoutes = {"/debug/pprof/"}

====
